---- MODULE Spec2Model ----
(***************************************************************************)
(* ColegiosPro service worker: offline cache and push notifications.       *)
(*                                                                         *)
(* The repository holds two variants of the worker script:                 *)
(*   "sw"      src/static/sw.js      (cache 'colegiospro-v1')              *)
(*   "landing" src/unnamed/part_000  (cache 'colegiospro-landing-v1')      *)
(* The variable `variant` says which script is running; every handler is   *)
(* translated once, with the places where the two scripts differ written   *)
(* as a test of `variant`.                                                 *)
(*                                                                         *)
(* Each asynchronous continuation of a handler (a .then/.catch callback, a *)
(* platform operation settling) is one action, so that continuations of    *)
(* different events interleave as they do in the worker's event loop.      *)
(***************************************************************************)
EXTENDS Integers, Sequences, FiniteSets, TLC

VARIABLES
    variant,        \* which of the two scripts is running
    lifecycle,      \* the worker's state in the service-worker lifecycle
    cacheKeys,      \* CacheStorage: bucket names, in creation order (caches.keys())
    cacheData,      \* CacheStorage: bucket name -> request URL -> stored body
    installPc,      \* position of the install handler's deferred work
    installPromise, \* the promise given to the install event's waitUntil
    assetFailed,    \* manifest assets whose fetch failed during install
    logged,         \* console.log('Cache addAll failed:', ...) was called
    skipWaitingCalled, \* self.skipWaiting() has been called
    activatePc,     \* position of the activate handler's deferred work
    keysSeen,       \* the key list caches.keys() resolved with
    toDelete,       \* stale buckets whose caches.delete() is still pending
    claimCalled,    \* self.clients.claim() has been called
    fetches,        \* the fetch events: id -> record
    push,           \* the push event being handled
    notification,   \* the notification on display, as the platform shows it
    click,          \* the notificationclick event being handled
    message,        \* the last message event dispatched to the worker
    arrivals        \* fetch events, in the order their network responses arrived

cacheVars    == <<cacheKeys, cacheData>>
installVars  == <<installPc, installPromise, assetFailed, logged, skipWaitingCalled>>
activateVars == <<activatePc, keysSeen, toDelete, claimCalled>>
notifyVars   == <<push, notification, click>>
vars == <<variant, lifecycle, cacheVars, installVars, activateVars, fetches, notifyVars,
          message, arrivals>>

----------------------------------------------------------------------------
(* Bounds *)

\* number of fetch events dispatched to the worker
MaxFetch == 2
\* number of window clients clients.matchAll() can resolve with
MaxClients == 2

FetchIds == 1..MaxFetch

----------------------------------------------------------------------------
(* Values *)

Variants == {"sw", "landing"}

\* JavaScript's undefined, as the result of a cache lookup that found nothing
Undefined == "<undefined>"

Range(s) == {s[i] : i \in 1..Len(s)}

\* String.prototype.includes
Includes(s, sub) ==
    \E i \in 1..(Len(s) - Len(sub) + 1) : SubSeq(s, i, i + Len(sub) - 1) = sub

----------------------------------------------------------------------------
(* Worker-scoped configuration *)

CACHE_NAME == IF variant = "sw" THEN "colegiospro-v1" ELSE "colegiospro-landing-v1"

ASSETS ==
    IF variant = "sw"
    THEN << "/", "/demo", "/manifest.json", "/static/img/duilio-cta.jpg",
            "/static/img/duilio-chat.jpg", "/static/img/icon-192.png" >>
    ELSE << "/", "/index.html", "/manifest.json",
            "https://fonts.googleapis.com/css2?family=Outfit:wght@300;400;500;600;700;800;900&family=DM+Sans:ital,wght@0,400;0,500;0,600;0,700;1,400&display=swap" >>

\* the install handler of sw.js ends its chain with .catch(err => console.log(..));
\* the one of part_000 has no .catch
InstallCatchesIn(v) == v = "sw"

InstallCatches == InstallCatchesIn(variant)

\* only sw.js has the line: if (event.request.url.includes('/ws/')) return;
SkipsWebSocketIn(v) == v = "sw"

SkipsWebSocket == SkipsWebSocketIn(variant)

----------------------------------------------------------------------------
(* Environment: buckets left by superseded versions, requests, bodies *)

OldCacheNames == <<"colegiospro-v0", "colegiospro-landing-v0">>

BucketNames == Range(OldCacheNames) \cup {"colegiospro-v1", "colegiospro-landing-v1"}

RequestUrls == {"/", "/api/data", "/ws/chat"}

\* the requests pages make
Requests == {[method |-> "GET", url |-> u] : u \in RequestUrls}
            \cup {[method |-> "POST", url |-> "/api/data"]}

AllUrls == RequestUrls \cup
           {"/demo", "/index.html", "/manifest.json", "/static/img/duilio-cta.jpg",
            "/static/img/duilio-chat.jpg", "/static/img/icon-192.png",
            "https://fonts.googleapis.com/css2?family=Outfit:wght@300;400;500;600;700;800;900&family=DM+Sans:ital,wght@0,400;0,500;0,600;0,700;1,400&display=swap"}

\* body of the response the network gives to fetch event f: every network
\* response is told apart from every other one
NetBody(f) == "net-" \o ToString(f)
\* body of a manifest asset downloaded by install
AssetBody == "asset"
\* body stored in a bucket of a superseded version
OldBody == "old"

EmptyBucket == [u \in AllUrls |-> Undefined]

NoResponse == [status |-> "none", body |-> Undefined]

\* A fetch event: the request (method, url), the handler's position (pc), the
\* calls it made (respondWith, netRequests), the network's answer (net), what
\* the page received (served) and the position of the cache write (putPc).
IdleFetch == [pc |-> "idle", method |-> "GET", url |-> "/", respondWith |-> FALSE,
              netRequests |-> 0, net |-> NoResponse, served |-> NoResponse,
              putPc |-> "none"]

----------------------------------------------------------------------------
(* CacheStorage *)

\* caches.open(name): the bucket is created when it does not exist
CachesOpen(keys, name) == IF name \in Range(keys) THEN keys ELSE Append(keys, name)

\* caches.delete(name)
CachesDelete(keys, name) == SelectSeq(keys, LAMBDA k : k # name)

\* caches.match(request): the first bucket, in creation order, holding an
\* entry for the request; undefined when none does
RECURSIVE MatchFrom(_, _, _, _)
MatchFrom(keys, data, url, i) ==
    IF i > Len(keys) THEN Undefined
    ELSE IF data[keys[i]][url] # Undefined THEN data[keys[i]][url]
    ELSE MatchFrom(keys, data, url, i + 1)

CachesMatch(keys, data, url) == MatchFrom(keys, data, url, 1)

\* mutation of CachePut: the write replaces the content of the bucket
CachePutReplacing(data, name, url, body) ==
    [data EXCEPT ![name] = [EmptyBucket EXCEPT ![url] = body]]

\* cache.put(request, response) on the bucket `name`
CachePut(data, name, url, body) == [data EXCEPT ![name][url] = body]

\* cache.addAll(urls): all-or-nothing; nothing is stored unless every
\* download succeeded
CacheAddAll(data, name, urls, failed) ==
    IF failed # {} THEN data
    ELSE [data EXCEPT ![name] = [u \in AllUrls |->
                                   IF u \in Range(urls) THEN AssetBody ELSE @[u]]]

----------------------------------------------------------------------------
(* install *)

\* mutation of InstallEvent: the listener does not call self.skipWaiting()
InstallEventWaits ==
    /\ lifecycle = "parsed"
    /\ lifecycle' = "installing"
    /\ installPc' = "open"
    /\ installPromise' = "pending"
    /\ skipWaitingCalled' = FALSE
    /\ UNCHANGED <<variant, message, arrivals, cacheVars, assetFailed, logged, activateVars, fetches, notifyVars>>

\* the install listener: waitUntil(caches.open(..)...); self.skipWaiting()
InstallEvent ==
    /\ lifecycle = "parsed"
    /\ lifecycle' = "installing"
    /\ installPc' = "open"
    /\ installPromise' = "pending"
    /\ skipWaitingCalled' = TRUE
    /\ UNCHANGED <<variant, message, arrivals, cacheVars, assetFailed, logged, activateVars, fetches, notifyVars>>

\* caches.open(CACHE_NAME) resolves
InstallCacheOpen ==
    /\ installPc = "open"
    /\ installPc' = "addAll"
    /\ cacheKeys' = CachesOpen(cacheKeys, CACHE_NAME)
    /\ UNCHANGED <<variant, message, arrivals, lifecycle, cacheData, installPromise, assetFailed, logged,
                   skipWaitingCalled, activateVars, fetches, notifyVars>>

\* outcome of the waitUntil promise once cache.addAll(ASSETS) has settled
InstallOutcomeIn(v, failed) ==
    IF failed = {} THEN "fulfilled"
    ELSE IF InstallCatchesIn(v) THEN "fulfilled" ELSE "rejected"

InstallOutcome(failed) == InstallOutcomeIn(variant, failed)

\* cache.addAll(ASSETS) settles; `failed` are the assets whose download failed
InstallAddAll(failed) ==
    /\ installPc = "addAll"
    /\ installPc' = "settled"
    /\ assetFailed' = failed
    /\ cacheData' = CacheAddAll(cacheData, CACHE_NAME, ASSETS, failed)
    /\ logged' = (failed # {} /\ InstallCatches)
    /\ installPromise' = InstallOutcome(failed)
    /\ UNCHANGED <<variant, message, arrivals, lifecycle, cacheKeys, skipWaitingCalled, activateVars, fetches, notifyVars>>

\* the runtime ends the install event: a rejected waitUntil promise makes
\* the installation fail and the worker redundant
InstallFinish ==
    /\ lifecycle = "installing"
    /\ installPc = "settled"
    /\ lifecycle' = IF installPromise = "fulfilled" THEN "installed" ELSE "redundant"
    /\ UNCHANGED <<variant, message, arrivals, cacheVars, installVars, activateVars, fetches, notifyVars>>

----------------------------------------------------------------------------
(* activate *)

\* mutation of StaleKeys: only a hard-coded previous version is deleted
StaleKeysPrevious(keys) == {k \in Range(keys) : k = "colegiospro-v0"}

\* keys.filter(k => k !== CACHE_NAME)
StaleKeys(keys) == {k \in Range(keys) : k # CACHE_NAME}

\* the activate listener: waitUntil(caches.keys()...); self.clients.claim()
ActivateEvent ==
    /\ lifecycle = "installed"
    /\ skipWaitingCalled
    /\ lifecycle' = "activating"
    /\ activatePc' = "keys"
    /\ claimCalled' = TRUE
    /\ UNCHANGED <<variant, message, arrivals, cacheVars, installVars, keysSeen, toDelete, fetches, notifyVars>>

\* caches.keys() resolves; one caches.delete(k) is started per stale key
ActivateKeys ==
    /\ activatePc = "keys"
    /\ activatePc' = "deleting"
    /\ keysSeen' = cacheKeys
    /\ toDelete' = StaleKeys(cacheKeys)
    /\ UNCHANGED <<variant, message, arrivals, lifecycle, cacheVars, installVars, claimCalled, fetches, notifyVars>>

\* one caches.delete(k) completes
ActivateDelete(k) ==
    /\ activatePc = "deleting"
    /\ k \in toDelete
    /\ toDelete' = toDelete \ {k}
    /\ cacheKeys' = CachesDelete(cacheKeys, k)
    /\ cacheData' = [cacheData EXCEPT ![k] = EmptyBucket]
    /\ UNCHANGED <<variant, message, arrivals, lifecycle, installVars, activatePc, keysSeen, claimCalled, fetches, notifyVars>>

\* Promise.all(...) resolves: the activate event ends
ActivateDone ==
    /\ activatePc = "deleting"
    /\ toDelete = {}
    /\ activatePc' = "done"
    /\ lifecycle' = "activated"
    /\ UNCHANGED <<variant, message, arrivals, cacheVars, installVars, keysSeen, toDelete, claimCalled, fetches, notifyVars>>

----------------------------------------------------------------------------
(* fetch *)

\* States in which fetch events reach this script.  Requests are not
\* ordered against activation: an instance of the script may already be
\* serving pages while the activate event of the registration runs.
Serving == lifecycle \in {"installed", "activating", "activated"}

\* mutation of Intercepted: the method test is missing
InterceptedAnyMethod(method, url) == ~(SkipsWebSocket /\ Includes(url, "/ws/"))

\* the two early returns of the fetch listener of variant v
InterceptedIn(v, method, url) ==
    /\ method = "GET"
    /\ ~(SkipsWebSocketIn(v) /\ Includes(url, "/ws/"))

\* the two early returns of the fetch listener
Intercepted(method, url) == InterceptedIn(variant, method, url)

\* the fetch listener
FetchEvent(f, method, url) ==
    /\ Serving
    /\ fetches[f].pc = "idle"
    /\ f > 1 => fetches[f - 1].pc # "idle"
    /\ fetches' = [fetches EXCEPT ![f] =
          IF Intercepted(method, url)
          THEN [@ EXCEPT !.pc = "network", !.method = method, !.url = url,
                         !.respondWith = TRUE, !.netRequests = @ + 1]
          ELSE [@ EXCEPT !.pc = "passthrough", !.method = method, !.url = url]]
    /\ UNCHANGED <<variant, message, arrivals, lifecycle, cacheVars, installVars, activateVars, notifyVars>>

\* mutation of ResponseArrives: the response is cached whatever its status
ResponseArrivesCachesErrors(f, ok) ==
    /\ fetches[f].pc = "network"
    /\ fetches' = [fetches EXCEPT ![f] =
          [@ EXCEPT !.pc = "responding",
                    !.net = [status |-> IF ok THEN "ok" ELSE "http-error",
                             body |-> NetBody(f)],
                    !.putPc = "open"]]

\* response => { if (response.ok) {...caches.open(..).then(put)}; return response }
ResponseArrives(f, ok) ==
    /\ fetches[f].pc = "network"
    /\ fetches' = [fetches EXCEPT ![f] =
          [@ EXCEPT !.pc = "responding",
                    !.net = [status |-> IF ok THEN "ok" ELSE "http-error",
                             body |-> NetBody(f)],
                    !.putPc = IF ok THEN "open" ELSE "none"]]

\* mutation of NetworkRespond: an HTTP error status falls back to the cache
NetworkRespondFallsBack(f, ok) ==
    /\ fetches[f].pc = "network"
    /\ fetches' = [fetches EXCEPT ![f] =
          [@ EXCEPT !.pc = IF ok THEN "responding" ELSE "matching",
                    !.net = [status |-> IF ok THEN "ok" ELSE "http-error",
                             body |-> NetBody(f)],
                    !.putPc = IF ok THEN "open" ELSE "none"]]
    /\ UNCHANGED <<variant, message, arrivals, lifecycle, cacheVars, installVars, activateVars, notifyVars>>

\* fetch(event.request) resolves with a response, ok or not
NetworkRespond(f, ok) ==
    /\ ResponseArrives(f, ok)
    /\ UNCHANGED <<variant, message, arrivals, lifecycle, cacheVars, installVars, activateVars, notifyVars>>

\* NetworkRespond, with the order of arrival of the responses kept
NetworkRespondInOrder(f, ok) ==
    /\ ResponseArrives(f, ok)
    /\ arrivals' = Append(arrivals, f)
    /\ UNCHANGED <<variant, message, lifecycle, cacheVars, installVars, activateVars, notifyVars>>

\* fetch(event.request) rejects: .catch(() => caches.match(event.request)) starts
NetworkFail(f) ==
    /\ fetches[f].pc = "network"
    /\ fetches' = [fetches EXCEPT ![f] =
          [@ EXCEPT !.pc = "matching",
                    !.net = [status |-> "network-error", body |-> Undefined]]]
    /\ UNCHANGED <<variant, message, arrivals, lifecycle, cacheVars, installVars, activateVars, notifyVars>>

\* mutation of FallbackResponse: an offline page is made up on a cache miss
FallbackOfflinePage(hit) ==
    IF hit = Undefined THEN [status |-> "ok", body |-> "offline"]
    ELSE [status |-> "ok", body |-> hit]

\* what respondWith hands to the page when the promise resolves with the
\* result of caches.match: undefined is a network error for the page
FallbackResponse(hit) ==
    IF hit = Undefined THEN [status |-> "network-error", body |-> Undefined]
    ELSE [status |-> "ok", body |-> hit]

\* caches.match(event.request) resolves and respondWith settles with it
CacheFallback(f) ==
    /\ fetches[f].pc = "matching"
    /\ fetches' = [fetches EXCEPT ![f] =
          [@ EXCEPT !.pc = "responded",
                    !.served = FallbackResponse(
                        CachesMatch(cacheKeys, cacheData, fetches[f].url))]]
    /\ UNCHANGED <<variant, message, arrivals, lifecycle, cacheVars, installVars, activateVars, notifyVars>>

\* the respondWith promise resolves with the network response: the page has it
Deliver(f) ==
    /\ fetches[f].pc = "responding"
    /\ fetches' = [fetches EXCEPT ![f] = [@ EXCEPT !.pc = "responded", !.served = fetches[f].net]]
    /\ UNCHANGED <<variant, message, arrivals, lifecycle, cacheVars, installVars, activateVars, notifyVars>>

\* the bucket the fetch listener writes to
PutBucket == CACHE_NAME

\* caches.open(CACHE_NAME) of the fetch listener resolves
FetchCacheOpen(f) ==
    /\ fetches[f].putPc = "open"
    /\ fetches' = [fetches EXCEPT ![f] = [@ EXCEPT !.putPc = "put"]]
    /\ cacheKeys' = CachesOpen(cacheKeys, PutBucket)
    /\ UNCHANGED <<variant, message, arrivals, lifecycle, cacheData, installVars, activateVars, notifyVars>>

\* cache.put(event.request, clone) completes
FetchCachePut(f) ==
    /\ fetches[f].putPc = "put"
    /\ fetches' = [fetches EXCEPT ![f] = [@ EXCEPT !.putPc = "done"]]
    /\ cacheData' = CachePut(cacheData, PutBucket, fetches[f].url, fetches[f].net.body)
    /\ UNCHANGED <<variant, message, arrivals, lifecycle, cacheKeys, installVars, activateVars, notifyVars>>

----------------------------------------------------------------------------
(* push *)

\* JavaScript's null
Null == "<null>"

\* ToBoolean on the values a payload field can hold (strings, null, undefined)
Truthy(v) == v \notin {Undefined, Null, ""}

\* a || b
Or(a, b) == IF Truthy(a) THEN a ELSE b

\* the icon path of the default notification
DefaultIcon == IF variant = "sw" THEN "/static/img/icon-192.png" ELSE "/icon-192.png"

\* the badge path written in the payload branch
BadgePath == IF variant = "sw" THEN "/static/img/icon-192.png" ELSE "/icon-192.png"

\* a notification without a data envelope (notification.data is null)
NoEnvelope == [defined |-> FALSE, url |-> Undefined, chatMessage |-> Undefined]

\* let data = { title: 'ColegiosPro', body: 'Tiene un nuevo mensaje', icon: ... }
DefaultData ==
    [title |-> "ColegiosPro", body |-> "Tiene un nuevo mensaje", icon |-> DefaultIcon,
     badge |-> Undefined, vibrate |-> <<>>, data |-> NoEnvelope, actions |-> <<>>]

\* The PushMessageData of a push event.  kind says what the body is:
\*   "none"      event.data is null (a push without payload)
\*   "object"    JSON text of an object; its fields are title..chatMessage,
\*               Undefined standing for a field the object does not have
\*   "null"      the JSON text null
\*   "primitive" JSON text of a string, number or boolean
\*   "text"      text that is not JSON
NoFields == [title |-> Undefined, body |-> Undefined, icon |-> Undefined,
             url |-> Undefined, chatMessage |-> Undefined]

PushPayloads ==
    {[kind |-> "none", text |-> Undefined, fields |-> NoFields]}
    \cup {[kind |-> "object", text |-> "{...}", fields |-> fl] :
            fl \in [title : {Undefined, "", "T"}, body : {Undefined, "", "B"},
                    icon : {Undefined, "", "/i.png"}, url : {Undefined, "", "/chat"},
                    chatMessage : {Undefined, Null, "", "hola"}]}
    \cup {[kind |-> "null", text |-> "null", fields |-> NoFields]}
    \cup {[kind |-> "primitive", text |-> "\"hello\"", fields |-> NoFields]}
    \cup {[kind |-> "text", text |-> t, fields |-> NoFields] : t \in {"hello", "{bad"}}

\* event.data.json() throws a SyntaxError
JsonThrows(d) == d.kind = "text"

\* payload.title throws a TypeError: the payload is null
PropertyThrows(d) == d.kind = "null"

\* something is thrown inside the try block
TryThrows(d) == d.kind # "none" /\ (JsonThrows(d) \/ PropertyThrows(d))

\* something is thrown inside the catch block: event.data.text() returns the
\* body as text whatever it is
CatchThrows(d) == FALSE

\* mutation of PayloadData: the title has no default
PayloadDataBareTitle(payload, data) ==
    [title |-> payload.title,
     body |-> Or(payload.body, data.body),
     icon |-> Or(payload.icon, data.icon),
     badge |-> BadgePath,
     vibrate |-> <<200, 100, 200>>,
     data |-> [defined |-> TRUE, url |-> Or(payload.url, "/"),
               chatMessage |-> Or(payload.chatMessage, Null)],
     actions |-> <<"open", "reply">>]

\* the object literal assigned to data inside the try block
PayloadData(payload, data) ==
    [title |-> Or(payload.title, data.title),
     body |-> Or(payload.body, data.body),
     icon |-> Or(payload.icon, data.icon),
     badge |-> BadgePath,
     vibrate |-> <<200, 100, 200>>,
     data |-> [defined |-> TRUE, url |-> Or(payload.url, "/"),
               chatMessage |-> Or(payload.chatMessage, Null)],
     actions |-> <<"open", "reply">>]

\* mutation of PushData: the catch block leaves the default body
PushDataKeepsBody(d) ==
    IF d.kind = "none" THEN DefaultData
    ELSE IF TryThrows(d) THEN DefaultData
    ELSE PayloadData(d.fields, DefaultData)

\* the value of data after the try/catch statement; the catch block runs
\* data.body = event.data ? event.data.text() : data.body
PushData(d) ==
    IF d.kind = "none" THEN DefaultData
    ELSE IF TryThrows(d) THEN [DefaultData EXCEPT !.body = d.text]
    ELSE PayloadData(d.fields, DefaultData)

\* the title and options handed to showNotification: sw.js passes data
\* itself, part_000 builds the options with badge: data.badge || data.icon
ShowOptions(data) ==
    IF variant = "sw" THEN data
    ELSE [data EXCEPT !.badge = Or(data.badge, data.icon)]

\* mutation of PushShowCalls: the try statement has no catch clause
PushShowCallsNoCatch(d) == IF TryThrows(d) THEN 0 ELSE 1

\* number of showNotification calls of one run of the push listener: the
\* call follows the try/catch statement and is reached unless an exception
\* leaves that statement
PushShowCalls(d) == IF TryThrows(d) /\ CatchThrows(d) THEN 0 ELSE 1

NoNotification == [displayed |-> FALSE, n |-> DefaultData]

IdlePush == [pc |-> "idle", data |-> [kind |-> "none", text |-> Undefined, fields |-> NoFields],
             showCalls |-> 0, waitUntil |-> 0, request |-> DefaultData]

\* the push listener.  Push events are taken one at a time: the next one is
\* dispatched once the notification of the previous one has been clicked
\* and that click has been handled.
PushEvent(d) ==
    /\ lifecycle = "activated"
    /\ push.pc \in {"idle", "shown"}
    /\ ~notification.displayed
    /\ click.pc = "idle"
    /\ push' = [pc |-> IF PushShowCalls(d) > 0 THEN "showing" ELSE "shown",
                data |-> d,
                showCalls |-> PushShowCalls(d),
                waitUntil |-> PushShowCalls(d),
                request |-> ShowOptions(PushData(d))]
    /\ UNCHANGED <<variant, message, arrivals, lifecycle, cacheVars, installVars, activateVars, fetches,
                   notification, click>>

\* showNotification resolves: the notification is on display
ShowResolve ==
    /\ push.pc = "showing"
    /\ push' = [push EXCEPT !.pc = "shown"]
    /\ notification' = [displayed |-> TRUE, n |-> push.request]
    /\ UNCHANGED <<variant, message, arrivals, lifecycle, cacheVars, installVars, activateVars, fetches, click>>

----------------------------------------------------------------------------
(* notificationclick *)

\* self.location.origin
Origin == "https://colegiospro.test"

ClientUrls == {Origin \o "/", Origin \o "/demo", "about:srcdoc"}

\* the lists clients.matchAll({type: 'window', includeUncontrolled: true})
\* can resolve with
RECURSIVE SeqsUpTo(_, _)
SeqsUpTo(S, n) ==
    IF n = 0 THEN {<<>>}
    ELSE SeqsUpTo(S, n - 1) \cup {Append(q, x) : q \in SeqsUpTo(S, n - 1), x \in S}

ClientLists == SeqsUpTo(ClientUrls, MaxClients)

\* event.notification.data?.field
OptChain(env, field) == IF env.defined THEN env[field] ELSE Undefined

\* mutation of ClientMatches: the origin test is missing
ClientMatchesAny(url) == TRUE

\* client.url.includes(self.location.origin)
ClientMatches(url) == Includes(url, Origin)

NoCalls == [focused |-> <<>>, posted |-> <<>>, opened |-> <<>>]

\* mutation of ClickLoop: the return inside the loop is missing
ClickLoopNoReturn(windowClients, i, env, url) ==
    LET hits == SelectSeq([j \in 1..Len(windowClients) |-> j],
                          LAMBDA j : j >= i /\ ClientMatches(windowClients[j]))
    IN  [focused |-> hits,
         posted |-> IF Truthy(OptChain(env, "chatMessage"))
                    THEN [k \in 1..Len(hits) |->
                            [client |-> hits[k], type |-> "OPEN_CHAT",
                             message |-> env.chatMessage]]
                    ELSE <<>>,
         opened |-> <<url>>]

\* the for loop over windowClients from position i, and the statement after
\* it: the calls made on clients, as lists in call order
RECURSIVE ClickLoop(_, _, _, _)
ClickLoop(windowClients, i, env, url) ==
    IF i > Len(windowClients)
    THEN [NoCalls EXCEPT !.opened = <<url>>]
    ELSE IF ClientMatches(windowClients[i])
    THEN [NoCalls EXCEPT
            !.focused = <<i>>,
            !.posted = IF Truthy(OptChain(env, "chatMessage"))
                       THEN << [client |-> i, type |-> "OPEN_CHAT",
                                message |-> env.chatMessage] >>
                       ELSE <<>>]
    ELSE ClickLoop(windowClients, i + 1, env, url)

IdleClick == [pc |-> "idle", closed |-> FALSE, data |-> NoEnvelope, url |-> Undefined,
              windowClients |-> <<>>, calls |-> NoCalls]

\* the notificationclick listener, up to clients.matchAll(...)
NotificationClick ==
    /\ lifecycle = "activated"
    /\ notification.displayed
    /\ click.pc = "idle"
    /\ notification' = [notification EXCEPT !.displayed = FALSE]
    /\ click' = [pc |-> "matching", closed |-> TRUE, data |-> notification.n.data,
                 url |-> Or(OptChain(notification.n.data, "url"), "/"),
                 windowClients |-> <<>>, calls |-> NoCalls]
    /\ UNCHANGED <<variant, message, arrivals, lifecycle, cacheVars, installVars, activateVars, fetches, push>>

\* clients.matchAll(...) resolves with windowClients: the .then callback
MatchAllResolve(windowClients) ==
    /\ click.pc = "matching"
    /\ click' = [click EXCEPT !.pc = "done", !.windowClients = windowClients,
                              !.calls = ClickLoop(windowClients, 1, click.data, click.url)]
    /\ UNCHANGED <<variant, message, arrivals, lifecycle, cacheVars, installVars, activateVars, fetches,
                   push, notification>>

\* the promise given to the click event's waitUntil has settled: the event ends
ClickEventEnds ==
    /\ click.pc = "done"
    /\ click' = IdleClick
    /\ UNCHANGED <<variant, message, arrivals, lifecycle, cacheVars, installVars, activateVars, fetches,
                   push, notification>>

----------------------------------------------------------------------------
(* message *)

\* only part_000 registers a message listener (lines 119-123); sw.js has none
HasMessageListener == variant = "landing"

\* event.data of a message event: an object of type 'SKIP_WAITING', an
\* object of another type, or no data at all
MessageTypes == {"SKIP_WAITING", "PING", Undefined}

\* if (event.data && event.data.type === 'SKIP_WAITING') self.skipWaiting()
MessageCallsSkipWaiting(type) ==
    HasMessageListener /\ type # Undefined /\ type = "SKIP_WAITING"

IdleMessage == [received |-> FALSE, type |-> Undefined, skipWaiting |-> FALSE]

\* a page posts a message to the worker: the message listener, where there
\* is one
MessageEvent(type) ==
    /\ lifecycle \in {"installing", "installed", "activating", "activated"}
    /\ message' = [received |-> TRUE, type |-> type,
                   skipWaiting |-> MessageCallsSkipWaiting(type)]
    /\ skipWaitingCalled' = (skipWaitingCalled \/ MessageCallsSkipWaiting(type))
    /\ UNCHANGED <<variant, arrivals, lifecycle, cacheVars, installPc, installPromise,
                   assetFailed, logged, activateVars, fetches, notifyVars>>

----------------------------------------------------------------------------
(* Initial state: the script has been parsed, no event dispatched yet.     *)

\* the buckets found at start: none, the one of the previous version, or
\* those of two superseded versions
InitialKeys == { SubSeq(OldCacheNames, 1, j) : j \in 0..Len(OldCacheNames) }

Init ==
    /\ variant \in Variants
    /\ lifecycle = "parsed"
    /\ cacheKeys \in InitialKeys
    /\ cacheData = [b \in BucketNames |->
                      IF b \in Range(cacheKeys)
                      THEN [EmptyBucket EXCEPT !["/"] = OldBody]
                      ELSE EmptyBucket]
    /\ installPc = "idle"
    /\ installPromise = "none"
    /\ assetFailed = {}
    /\ logged = FALSE
    /\ skipWaitingCalled = FALSE
    /\ activatePc = "idle"
    /\ keysSeen = <<>>
    /\ toDelete = {}
    /\ claimCalled = FALSE
    /\ fetches = [f \in FetchIds |-> IdleFetch]
    /\ push = IdlePush
    /\ notification = NoNotification
    /\ click = IdleClick
    /\ message = IdleMessage
    /\ arrivals = <<>>

----------------------------------------------------------------------------

\* the manifest assets whose download fails during install: none, the
\* first one only, or all of them (the network is down)
FailedSets == {{}, {ASSETS[1]}, Range(ASSETS)}

Next ==
    \/ InstallEvent
    \/ InstallCacheOpen
    \/ \E failed \in FailedSets : InstallAddAll(failed)
    \/ InstallFinish
    \/ ActivateEvent
    \/ ActivateKeys
    \/ \E k \in BucketNames : ActivateDelete(k)
    \/ ActivateDone
    \/ \E f \in FetchIds, r \in Requests : FetchEvent(f, r.method, r.url)
    \/ \E f \in FetchIds, ok \in BOOLEAN : NetworkRespond(f, ok)
    \/ \E f \in FetchIds : NetworkFail(f)
    \/ \E f \in FetchIds : CacheFallback(f)
    \/ \E f \in FetchIds : Deliver(f)
    \/ \E f \in FetchIds : FetchCacheOpen(f)
    \/ \E f \in FetchIds : FetchCachePut(f)

Spec == Init /\ [][Next]_vars

\* The worker with notification traffic: the lifecycle events, then push and
\* notificationclick events dispatched to the active worker.
NextNotify ==
    \/ InstallEvent
    \/ InstallCacheOpen
    \/ \E failed \in FailedSets : InstallAddAll(failed)
    \/ InstallFinish
    \/ ActivateEvent
    \/ ActivateKeys
    \/ \E k \in BucketNames : ActivateDelete(k)
    \/ ActivateDone
    \/ \E d \in PushPayloads : PushEvent(d)
    \/ ShowResolve
    \/ NotificationClick
    \/ \E wc \in ClientLists : MatchAllResolve(wc)
    \/ ClickEventEnds

\* Notification handling reads nothing of CacheStorage: it is explored from
\* a profile holding the bucket of the previous version only.
InitNotify == Init /\ cacheKeys = SubSeq(OldCacheNames, 1, 1)

SpecNotify == InitNotify /\ [][NextNotify]_vars

\* The lifecycle of the worker with messages from pages.  The runtime
\* dispatches the activate event to an installed worker that has asked to
\* skip waiting, and the CacheStorage operations of the activate handler
\* complete.
NextLifecycle ==
    \/ InstallEvent
    \/ InstallCacheOpen
    \/ \E failed \in FailedSets : InstallAddAll(failed)
    \/ InstallFinish
    \/ ActivateEvent
    \/ ActivateKeys
    \/ \E k \in BucketNames : ActivateDelete(k)
    \/ ActivateDone
    \/ \E t \in MessageTypes : MessageEvent(t)

ActivationFairness ==
    /\ WF_vars(ActivateEvent)
    /\ WF_vars(ActivateKeys)
    /\ WF_vars(\E k \in BucketNames : ActivateDelete(k))
    /\ WF_vars(ActivateDone)

SpecLifecycle == Init /\ [][NextLifecycle]_vars /\ ActivationFairness

\* Spec with the arrival order of the network responses recorded, explored
\* from a profile holding the bucket of the previous version only.
NextRace ==
    \/ InstallEvent
    \/ InstallCacheOpen
    \/ \E failed \in FailedSets : InstallAddAll(failed)
    \/ InstallFinish
    \/ ActivateEvent
    \/ ActivateKeys
    \/ \E k \in BucketNames : ActivateDelete(k)
    \/ ActivateDone
    \/ \E f \in FetchIds, r \in Requests : FetchEvent(f, r.method, r.url)
    \/ \E f \in FetchIds, ok \in BOOLEAN : NetworkRespondInOrder(f, ok)
    \/ \E f \in FetchIds : NetworkFail(f)
    \/ \E f \in FetchIds : CacheFallback(f)
    \/ \E f \in FetchIds : Deliver(f)
    \/ \E f \in FetchIds : FetchCacheOpen(f)
    \/ \E f \in FetchIds : FetchCachePut(f)

SpecRace == InitNotify /\ [][NextRace]_vars

----------------------------------------------------------------------------
(* Properties: install, activate, fetch *)

\* the install event has completed: its waitUntil promise was fulfilled and
\* the worker is installed
InstallCompleted == installPromise = "fulfilled" /\ lifecycle \notin {"installing", "redundant"}

\* C1: in both variants a failed download of a manifest asset during install
\* is swallowed: the promise given to waitUntil never rejects and the
\* installation is not aborted.
C1_InstallNeverRejects ==
    /\ installPromise # "rejected"
    /\ lifecycle # "redundant"

\* C2: after the install event has completed, every manifest asset whose own
\* download succeeded is retrievable from the CACHE_NAME bucket, also when
\* the download of another manifest asset failed.
C2_SucceededAssetsCached ==
    InstallCompleted =>
        \A a \in Range(ASSETS) \ assetFailed :
            /\ CACHE_NAME \in Range(cacheKeys)
            /\ cacheData[CACHE_NAME][a] # Undefined

\* C3: once the deferred work of the activate handler has finished, the only
\* bucket that can be enumerated is the one named CACHE_NAME, whatever
\* buckets existed before and whatever cache writes of fetch handlers
\* complete afterwards.
C3_OnlyCurrentBucket ==
    activatePc = "done" => \A i \in 1..Len(cacheKeys) : cacheKeys[i] = CACHE_NAME

\* C3 witness: activation has finished after deleting two stale buckets, the
\* current bucket exists, one fetch handler has completed its cache write
\* and the write of another is still pending.
C3_Witness ==
    /\ activatePc = "done"
    /\ Len(keysSeen) >= 3
    /\ cacheKeys = <<CACHE_NAME>>
    /\ \E f, g \in FetchIds : fetches[f].putPc = "done" /\ fetches[g].putPc = "put"

\* C4: for every intercepted GET request whose network request succeeds, by
\* the time the response has been delivered to the page the CACHE_NAME
\* bucket holds an entry for the request whose body is the served one.
C4_CachedWhenDelivered ==
    \A f \in FetchIds :
        (fetches[f].pc = "responded" /\ fetches[f].net.status = "ok") =>
            cacheData[CACHE_NAME][fetches[f].url] = fetches[f].served.body

\* the bodies stored for url in the buckets that exist
CachedBodies(url) == {cacheData[cacheKeys[i]][url] : i \in 1..Len(cacheKeys)} \ {Undefined}

\* C5: when the network request of an intercepted GET request fails, the
\* page is served a cached entry of that request if one exists, and
\* observes a failed fetch, with no made-up response, if none exists.
C5_FallbackServesCache ==
    [][ \A f \in FetchIds :
          (fetches[f].pc = "matching" /\ fetches'[f].pc = "responded") =>
              IF CachedBodies(fetches[f].url) = {}
              THEN fetches'[f].served = [status |-> "network-error", body |-> Undefined]
              ELSE /\ fetches'[f].served.status = "ok"
                   /\ fetches'[f].served.body \in CachedBodies(fetches[f].url)
      ]_vars

\* C5 witness: two requests whose network request failed, one served from
\* the cache and one observed by the page as a failed fetch.
C5_Witness ==
    \E f, g \in FetchIds :
        /\ fetches[f].pc = "responded" /\ fetches[f].net.status = "network-error"
        /\ fetches[f].served.status = "ok"
        /\ fetches[g].pc = "responded" /\ fetches[g].net.status = "network-error"
        /\ fetches[g].served.status = "network-error"

\* a request the fetch listener must leave alone
NotForWorker(f) ==
    \/ fetches[f].method # "GET"
    \/ variant = "sw" /\ Includes(fetches[f].url, "/ws/")

\* C6: a fetch event for a request that is not GET, or, in sw.js, whose URL
\* contains '/ws/', is not intercepted: no respondWith, no network
\* request by the handler, no cache lookup, no cache write.
C6_NotIntercepted ==
    \A f \in FetchIds :
        (fetches[f].pc # "idle" /\ NotForWorker(f)) =>
            /\ fetches[f].pc = "passthrough"
            /\ ~fetches[f].respondWith
            /\ fetches[f].netRequests = 0
            /\ fetches[f].putPc = "none"
            /\ fetches[f].served = NoResponse

\* C6 witness: a POST request and, in sw.js, a GET request for a '/ws/' URL
\* have both been left to the browser.
C6_Witness ==
    /\ variant = "sw"
    /\ \E f, g \in FetchIds :
          /\ fetches[f].pc = "passthrough" /\ fetches[f].method = "POST"
          /\ fetches[g].pc = "passthrough" /\ fetches[g].method = "GET"
          /\ fetches[g].url = "/ws/chat"

----------------------------------------------------------------------------
(* Properties: push, notificationclick *)

\* the showNotification request of the push event being handled, and the
\* notification on display, each satisfy P
Notified(P(_)) ==
    /\ push.pc \in {"showing", "shown"} => P(push.request)
    /\ notification.displayed => P(notification.n)

\* the field of a payload when the payload has it, else the default
WherePresent(v, default) == IF v # Undefined THEN v ELSE default

\* the field of a payload when it holds a non-empty string, else the default
WhereNonEmpty(v, default) == IF v \in {Undefined, Null, ""} THEN default ELSE v

C7_IconDefault == IF variant = "sw" THEN "/static/img/icon-192.png" ELSE "/icon-192.png"

C7_AsPresent(n) ==
    LET fl == push.data.fields IN
    /\ n.title = WherePresent(fl.title, "ColegiosPro")
    /\ n.body = WherePresent(fl.body, "Tiene un nuevo mensaje")
    /\ n.icon = WherePresent(fl.icon, C7_IconDefault)
    /\ n.data.defined
    /\ n.data.url = WherePresent(fl.url, "/")
    /\ n.data.chatMessage = WherePresent(fl.chatMessage, Null)

C7_AsNonEmpty(n) ==
    LET fl == push.data.fields IN
    /\ n.title = WhereNonEmpty(fl.title, "ColegiosPro")
    /\ n.body = WhereNonEmpty(fl.body, "Tiene un nuevo mensaje")
    /\ n.icon = WhereNonEmpty(fl.icon, C7_IconDefault)
    /\ n.data.defined
    /\ n.data.url = WhereNonEmpty(fl.url, "/")
    /\ n.data.chatMessage = WhereNonEmpty(fl.chatMessage, Null)

\* C7, as claimed: for a push event whose body parses as a JSON object, the
\* notification has the payload's title, body and icon where present and
\* the defaults where missing, and its data envelope has the payload's url
\* (default '/') and chatMessage (default null).
C7_FieldsWherePresent == push.data.kind = "object" => Notified(C7_AsPresent)

\* C7, amended: for a push event whose body parses as a JSON object with
\* string fields, each of title, body, icon, url and chatMessage of the
\* notification is the payload's field where that field is a non-empty
\* string, and the default where it is missing, null or the empty string.
C7_FieldsWhereNonEmpty == push.data.kind = "object" => Notified(C7_AsNonEmpty)

\* C7 witness: the notification of the payload {title: 'T', body: 'B',
\* url: '/chat'} is on display.
C7_Witness ==
    /\ push.pc = "shown"
    /\ push.data.kind = "object"
    /\ push.data.fields = [title |-> "T", body |-> "B", icon |-> Undefined,
                           url |-> "/chat", chatMessage |-> Undefined]
    /\ notification.displayed
    /\ notification.n.title = "T"
    /\ notification.n.data.url = "/chat"

C8_PlainText(n) ==
    /\ n.title = "ColegiosPro"
    /\ n.body = push.data.text
    /\ n.icon = C7_IconDefault
    /\ n.badge \in {Undefined, C7_IconDefault}
    /\ n.vibrate = <<>>
    /\ n.actions = <<>>
    /\ ~n.data.defined

\* C8: for a push event whose body is not valid JSON, the notification's
\* body is the literal text of the push body, its title is 'ColegiosPro'
\* and every other field is at its default.
C8_MalformedShowsText == push.data.kind = "text" => Notified(C8_PlainText)

\* C8 witness: the notification of the push body hello is on display.
C8_Witness ==
    /\ push.data.kind = "text"
    /\ push.data.text = "hello"
    /\ notification.displayed
    /\ notification.n.body = "hello"

\* C9: every push event, whatever its payload, makes exactly one
\* showNotification request, registered with the event's waitUntil.
C9_AlwaysOneNotification ==
    push.pc # "idle" => push.showCalls = 1 /\ push.waitUntil = 1

\* C9 witness: showNotification has been requested for a push whose body is
\* the JSON text null.
C9_Witness ==
    /\ push.pc = "showing"
    /\ push.data.kind = "null"
    /\ push.showCalls = 1

\* the URL is one of the worker's origin
UnderOrigin(url) == Len(url) >= Len(Origin) /\ SubSeq(url, 1, Len(Origin)) = Origin

\* C10: on a notificationclick with at least one open window client under
\* the worker's origin and a non-null chatMessage in the data envelope,
\* exactly one client is focused, that client and no other receives
\* exactly one OPEN_CHAT message carrying chatMessage, and openWindow is
\* not called, however many matching tabs are open.
C10_OneFocusOneMessage ==
    ( /\ click.pc = "done"
      /\ \E i \in 1..Len(click.windowClients) : UnderOrigin(click.windowClients[i])
      /\ click.data.defined
      /\ click.data.chatMessage # Null )
    => /\ Len(click.calls.focused) = 1
       /\ UnderOrigin(click.windowClients[click.calls.focused[1]])
       /\ click.calls.posted = << [client |-> click.calls.focused[1], type |-> "OPEN_CHAT",
                                   message |-> click.data.chatMessage] >>
       /\ click.calls.opened = <<>>

\* C10 witness: a click on a chat notification with two matching tabs open
\* has been handled.
C10_Witness ==
    /\ click.pc = "done"
    /\ Len(click.windowClients) = 2
    /\ \A i \in 1..2 : UnderOrigin(click.windowClients[i])
    /\ click.data.defined
    /\ click.data.chatMessage = "hola"
    /\ Len(click.calls.posted) = 1

\* C11: on a notificationclick with no open window client under the
\* worker's origin, exactly one window is opened, at the url of the
\* notification's data envelope, or at '/' when the envelope or its url is
\* absent; no client is focused and no message is posted.
C11_OpensOneWindow ==
    ( /\ click.pc = "done"
      /\ \A i \in 1..Len(click.windowClients) : ~UnderOrigin(click.windowClients[i]) )
    => /\ click.calls.opened =
            << IF click.data.defined /\ click.data.url # Undefined
               THEN click.data.url ELSE "/" >>
       /\ click.calls.focused = <<>>
       /\ click.calls.posted = <<>>

\* C11 witness: a click on the notification of a payload with url '/chat'
\* has been handled while the only window client was not under the origin.
C11_Witness ==
    /\ click.pc = "done"
    /\ click.windowClients = <<"about:srcdoc">>
    /\ click.data.defined
    /\ click.data.url = "/chat"
    /\ click.calls.opened = <<"/chat">>

\* C12: in each variant a message event whose data is {type: 'SKIP_WAITING'}
\* makes the worker ask to leave the waiting state (self.skipWaiting()),
\* and a message with any other data or type does not.
C12_SkipWaitingOnMessage ==
    message.received =>
        (message.skipWaiting <=> (message.type = "SKIP_WAITING"))

\* C13: under every interleaving of fetch events, a step of a fetch handler
\* that changes the cache changes only the entry keyed by that handler's
\* request in the bucket CACHE_NAME, as its cache.put completes; no step of a
\* fetch handler removes an entry or a bucket.
C13_WriteTouchesOneEntry ==
    [][\A f \in FetchIds :
          fetches'[f] # fetches[f] =>
            /\ \A b \in BucketNames, u \in AllUrls :
                 /\ cacheData[b][u] # Undefined => cacheData'[b][u] # Undefined
                 /\ cacheData'[b][u] # cacheData[b][u] =>
                       /\ b = CACHE_NAME
                       /\ u = fetches[f].url
                       /\ fetches[f].putPc = "put"
            /\ Range(cacheKeys) \subseteq Range(cacheKeys')]_vars

C13_Witness ==
    /\ fetches[1].putPc = "done"
    /\ fetches[2].putPc = "done"
    /\ fetches[1].url = "/api/data"
    /\ fetches[2].url = "/"
    /\ cacheData[CACHE_NAME]["/api/data"] = NetBody(1)
    /\ cacheData[CACHE_NAME]["/"] = NetBody(2)
    /\ cacheData[CACHE_NAME]["/manifest.json"] = AssetBody

----------------------------------------------------------------------------
(* Properties: lifetime extensions, variants, activation *)

\* event.waitUntil(p) of the install event: p has not settled
InstallExtensionPending == installPromise = "pending"

\* event.waitUntil(p) of the activate event: p has not settled
ActivateExtensionPending == lifecycle = "activating"

\* event.respondWith(p) of fetch event f: p has not settled
RespondWithPending(f) == fetches[f].pc \in {"network", "matching", "responding"}

\* C14: in every reachable state each asynchronous operation started by a
\* handler (the cache warm-up of install, the deletions of activate, the
\* network request and the cache open/put of a fetch handler) is covered by
\* a still pending waitUntil/respondWith extension of its event.
C14_OperationsCovered ==
    /\ installPc \in {"open", "addAll"} => InstallExtensionPending
    /\ activatePc \in {"keys", "deleting"} => ActivateExtensionPending
    /\ \A f \in FetchIds :
          (fetches[f].pc = "network" \/ fetches[f].putPc \in {"open", "put"})
              => RespondWithPending(f)

\* the variant this worker is compared with
OtherVariant == IF variant = "sw" THEN "landing" ELSE "sw"

\* C15: on the same events with the same network outcomes the two variants
\* behave alike: what this worker did with each request it was given
\* (intercepted or left to the browser) and with the outcome of its install
\* warm-up is what the script of the other variant does on the same input.
C15_VariantsAgree ==
    /\ \A f \in FetchIds :
          fetches[f].pc # "idle" =>
             (fetches[f].respondWith
                 <=> InterceptedIn(OtherVariant, fetches[f].method, fetches[f].url))
    /\ installPc = "settled" =>
          installPromise = InstallOutcomeIn(OtherVariant, assetFailed)

\* C16: control of the open tabs is claimed only after every bucket whose
\* name differs from CACHE_NAME has been deleted: in no reachable state has
\* clients.claim() been called while a stale bucket exists.
C16_ClaimAfterCleanup == claimCalled => StaleKeys(cacheKeys) = {}

\* C17: every install event calls skipWaiting, whatever the outcome of the
\* cache warm-up, and a newly installed worker does not stay in the waiting
\* state while tabs of an older version remain open: it eventually becomes
\* the active worker.
C17_InstalledBecomesActive ==
    /\ [](lifecycle # "parsed" => skipWaitingCalled)
    /\ (lifecycle = "installed") ~> (lifecycle = "activated")

C17_Witness ==
    /\ lifecycle = "activated"
    /\ assetFailed # {}
    /\ skipWaitingCalled
    /\ ~message.received

----------------------------------------------------------------------------
(* Properties: network first *)

\* C18: for an intercepted GET request to which the network gives any
\* response, successful or an HTTP error, the page receives exactly that
\* response and the cache is not read; the cache is read, and a cached entry
\* served, only when the network request rejected.
C18_NetworkFirst ==
    \A f \in FetchIds :
        /\ fetches[f].pc = "matching" => fetches[f].net.status = "network-error"
        /\ (fetches[f].pc = "responded"
              /\ fetches[f].net.status \in {"ok", "http-error"})
           => fetches[f].served = fetches[f].net
        /\ (fetches[f].pc = "responded" /\ fetches[f].served # fetches[f].net)
           => fetches[f].net.status = "network-error"

C18_Witness ==
    /\ fetches[1].pc = "responded"
    /\ fetches[1].net.status = "http-error"
    /\ fetches[1].served = [status |-> "http-error", body |-> NetBody(1)]
    /\ CachesMatch(cacheKeys, cacheData, fetches[1].url) = AssetBody

\* C19: an intercepted GET request whose network response is not ok, or
\* whose network request rejects, leaves every bucket unchanged: no step of
\* its handler changes the set of buckets or any entry, and no cache write is
\* started for it.
C19_ErrorsLeaveCacheAlone ==
    [][\A f \in FetchIds :
          (/\ fetches'[f] # fetches[f]
           /\ fetches'[f].net.status \in {"http-error", "network-error"})
          => /\ cacheKeys' = cacheKeys
             /\ cacheData' = cacheData
             /\ fetches'[f].putPc = "none"]_vars

C19_Witness ==
    /\ fetches[1].pc = "responded"
    /\ fetches[1].net.status = "http-error"
    /\ fetches[1].url = "/"
    /\ fetches[2].pc = "responded"
    /\ fetches[2].net.status = "network-error"
    /\ fetches[2].url = "/"
    /\ fetches[2].served = [status |-> "ok", body |-> AssetBody]
    /\ cacheData[CACHE_NAME]["/"] = AssetBody

----------------------------------------------------------------------------
(* Properties: concurrent fetch events *)

\* position of fetch event f in the order of arrival of the responses
ArrivalIndex(f) == CHOOSE i \in 1..Len(arrivals) : arrivals[i] = f

\* C20: when two fetch events for the same GET request both got a successful
\* network response and the cache writes of both have finished, the entry
\* of the request in CACHE_NAME is the response that arrived last, never the
\* earlier one.  (An entry holding the earlier response h while the write of
\* the later one is done means that the write of h finished after f's
\* response arrived: the two events were in flight together.)
C20_LastArrivalCached ==
    \A f, h \in FetchIds :
        ( /\ f # h
          /\ fetches[f].url = fetches[h].url
          /\ fetches[f].net.status = "ok"
          /\ fetches[h].net.status = "ok"
          /\ fetches[f].putPc = "done"
          /\ fetches[h].putPc = "done"
          /\ ArrivalIndex(h) < ArrivalIndex(f) )
        => cacheData[CACHE_NAME][fetches[f].url] # NetBody(h)

====
